---- MODULE Spec2Model ----
(***************************************************************************)
(* Model of ci/scripts/run_pr2_e2e_ws.py: the Session Driver (_ws_flow),   *)
(* its bounded wait (_wait_for), the receive callback (_on_message) that   *)
(* runs on the socket.io receive thread, and the orchestrator (main).      *)
(*                                                                         *)
(* Time is counted in ticks of one second, the step deadline.  A thread    *)
(* that is ready to run does so before the clock moves on: the clock       *)
(* advances only while the driver sleeps in _wait_for and no callback is   *)
(* in progress.                                                            *)
(*                                                                         *)
(* Spec is one driver run against a server that may send any solicited     *)
(* message at any time.  SpecMain is main: the three driver runs in        *)
(* sequence against the session server, the report and the artifacts.      *)
(***************************************************************************)
EXTENDS Integers, Sequences, FiniteSets, TLC

\* the 1.0 second step deadline, in ticks
Timeout == 1
\* poll_s of _wait_for, in ticks
Poll == 1
\* inbound messages the server delivers on one connection (Spec)
MaxMsgs == 4
\* the clock stops advancing at MaxTime once the driver has returned (Spec)
MaxTime == 2

VARIABLES
    pc,            \* position of the driver thread in _ws_flow
    idem,          \* do_idempotent_join
    now,           \* time.time()
    deadline,      \* _wait_for's deadline
    wake,          \* end of the current time.sleep(poll_s)
    sent,          \* messages emitted by sio.emit, in order
    ack_seen,      \* ack_seen
    aggs,          \* aggs
    timeline,      \* timeline
    logs,          \* logs
    cb,            \* the message _on_message is processing
    cbpc,          \* position of the receive thread in _on_message; 0: idle
    got_event_ack, \* local got_event_ack
    got_agg,       \* local got_agg
    res,           \* the WsResult returned (flags and last_aggregate)
    conn,          \* per client: "none", "open" or "closed"
    mpc,           \* position of main; "driver_only" when only a driver runs
    flow,          \* the client whose driver runs: 1, 2 or 3
    results,       \* res1, res2
    cids,          \* cid1, cid2
    agg_after_disc,
    report,        \* the report lines
    written,       \* the artifact files written
    exit_code,     \* the process exit code; -1 while running
    members,       \* server: connections joined to the session
    enters,        \* server: class_enter events counted
    inbox,         \* server: messages on their way to the running driver
    srv_done,      \* server: requests of the running driver handled
    dup,           \* server: it counted client 1's repeated join a second time
    export,        \* gate: the state of trace-export.json
    ids,           \* gate: the candidate ids read from correlation-ids.txt
    spans,         \* gate: the spans of the export
    gpc,           \* gate: position in _check_trace_chain
    gi,            \* gate: index of the candidate the loop is at
    chk,           \* gate: the CheckResult returned
    obs,           \* files: what exists of artifacts/observability
    svc,           \* files: the lines of service-logs.txt
    tok,           \* gate: the CheckResult of _check_token_evidence
    gexit,         \* gate: the exit code of main; -1 while running
    gwritten,      \* gate: the checks written to trace-evidence.md
    runs,          \* gate: runs of main started
    prev,          \* gate: verdicts and exit code of the previous run
    ran,           \* files: the scripts run so far, in order
    timelines,     \* the timeline lists of clients 1 and 2 (res1.timeline, res2.timeline)
    tfile          \* files: the lines of e2e-timeline.txt

dvars == <<pc, idem, now, deadline, wake, sent, ack_seen, aggs, timeline, logs,
           cb, cbpc, got_event_ack, got_agg, res>>

ovars == <<mpc, flow, results, cids, agg_after_disc, report, written, exit_code>>

svars == <<members, enters, inbox, srv_done, dup>>

gvars == <<export, ids, spans, gpc, gi, chk>>

fvars == <<obs, svc, tok, gexit, gwritten, runs, prev, ran, timelines, tfile>>

vars == <<dvars, conn, ovars, svars, gvars, fvars>>

\* str(uuid.uuid4()) of the running driver; 0 stands for an absent or empty
\* field
correlation_id == flow
class_session_id == 1

None == [msg_type |-> "none", ack_type |-> "none", ok |-> FALSE,
         correlation_id |-> 0, class_session_id |-> 0,
         joined_count |-> 0, enter_event_count |-> 0, t |-> 0, n |-> 0]

Ack(at, ok, cid, csid) ==
    [msg_type |-> "ack", ack_type |-> at, ok |-> ok,
     correlation_id |-> cid, class_session_id |-> csid,
     joined_count |-> 0, enter_event_count |-> 0, t |-> 0, n |-> 0]

Agg(jc, ec, cid, csid) ==
    [msg_type |-> "class_session_aggregate", ack_type |-> "none", ok |-> FALSE,
     correlation_id |-> cid, class_session_id |-> csid,
     joined_count |-> jc, enter_event_count |-> ec, t |-> 0, n |-> 0]

\* what the server of Spec may deliver (the last aggregate carries another
\* client's correlation id); t and n are filled in on receipt
Inbound ==
    { Ack("auth", TRUE, correlation_id, 0),
      Ack("auth", FALSE, 0, 0),
      Ack("join_class_session", TRUE, correlation_id, class_session_id),
      Ack("event", TRUE, correlation_id, class_session_id),
      Agg(1, 1, correlation_id, class_session_id),
      Agg(2, 2, 2, class_session_id) }

WsResult(a, j, e, g, last) ==
    [auth_ok |-> a, join_ok |-> j, event_ack_ok |-> e, got_aggregate |-> g,
     last_aggregate |-> last]

NoResult == WsResult(FALSE, FALSE, FALSE, FALSE, None)

Waits == {"auth_wait", "join_wait", "join2_wait", "event_ack_wait", "agg_wait"}

Flows == {"driver_only", "flow1", "flow2", "flow3"}

Files == {"e2e-ws-report.txt", "service-logs.txt", "correlation-ids.txt",
          "e2e-timeline.txt"}

Range(s) == {s[i] : i \in 1..Len(s)}

\* inbound messages whose callback has started
Received == Cardinality({i \in 1..Len(timeline) : timeline[i].ev = "recv"})

----------------------------------------------------------------------------
\* the wait predicates of _ws_flow

IsOkAck(a, at) == a.ack_type = at /\ a.ok

auth_pred_any == \E a \in Range(ack_seen) : a.ack_type = "auth"

auth_pred == \E a \in Range(ack_seen) : IsOkAck(a, "auth")

join_pred == \E a \in Range(ack_seen) : IsOkAck(a, "join_class_session")

IsOkJoin(a) == IsOkAck(a, "join_class_session")

join2_pred == Cardinality({i \in 1..Len(ack_seen) : IsOkJoin(ack_seen[i])}) >= 2

event_pred == \E a \in Range(ack_seen) : IsOkAck(a, "event")

agg_pred == Len(aggs) > 0

wait_for_late(predicate) ==
    IF now <= deadline
    THEN IF predicate THEN "true" ELSE "sleep"
    ELSE IF predicate THEN "true" ELSE "false"

wait_for_forever(predicate) == IF predicate THEN "true" ELSE "sleep"

\* one iteration of _wait_for, entered when the thread is awake
wait_for(predicate) ==
    IF now < deadline
    THEN IF predicate THEN "true" ELSE "sleep"
    ELSE IF predicate THEN "true" ELSE "false"

Emit_new_id(type, next) ==
    /\ sent' = Append(sent, [type |-> type, correlation_id |-> correlation_id + Len(sent),
                             t |-> now, rx |-> Received])
    /\ pc' = next
    /\ deadline' = now + Timeout
    /\ wake' = now

\* sio.emit followed by the start of the next _wait_for
Emit(type, next) ==
    /\ sent' = Append(sent, [type |-> type, correlation_id |-> correlation_id,
                             t |-> now, rx |-> Received])
    /\ pc' = next
    /\ deadline' = now + Timeout
    /\ wake' = now

Sleep ==
    /\ wake' = now + Poll
    /\ UNCHANGED <<pc, deadline, sent>>

Return(r) ==
    /\ res' = r
    /\ pc' = "done"
    /\ UNCHANGED <<deadline, wake, sent>>

----------------------------------------------------------------------------
\* the driver thread

\* the locals of a _ws_flow call before its first statement
FlowStart(i) ==
    /\ pc = "idle"
    /\ idem = i
    /\ deadline = 0
    /\ wake = 0
    /\ sent = <<>>
    /\ ack_seen = <<>>
    /\ aggs = <<>>
    /\ timeline = <<>>
    /\ logs = <<>>
    /\ cb = None
    /\ cbpc = 0
    /\ got_event_ack = FALSE
    /\ got_agg = FALSE
    /\ res = NoResult

Idle ==
    /\ now = 0
    /\ conn = [k \in 1..3 |-> "none"]
    /\ flow = 1
    /\ results = [k \in 1..2 |-> NoResult]
    /\ cids = <<>>
    /\ agg_after_disc = None
    /\ report = <<>>
    /\ written = {}
    /\ exit_code = -1
    /\ members = {}
    /\ enters = 0
    /\ inbox = <<>>
    /\ srv_done = 0
    /\ dup = FALSE

\* a CheckResult: conclusion, and the evidence text with the id it names
CheckResult(ok, conclusion, text, cid) ==
    [ok |-> ok, conclusion |-> conclusion, evidence |-> [text |-> text, cid |-> cid]]

NoCheck == CheckResult(FALSE, "none", "none", "")

\* the observability gate is not running
GateIdle ==
    /\ export = "none"
    /\ ids = <<>>
    /\ spans = {}
    /\ gpc = "off"
    /\ gi = 0
    /\ chk = NoCheck
    /\ obs = {}
    /\ svc = <<>>
    /\ tok = NoCheck
    /\ gexit = -1
    /\ gwritten = <<>>
    /\ runs = 0
    /\ prev = <<>>
    /\ ran = <<>>
    /\ timelines = <<<<>>, <<>>>>
    /\ tfile = <<>>

Init ==
    /\ \E i \in BOOLEAN : FlowStart(i)
    /\ Idle
    /\ GateIdle
    /\ mpc = "driver_only"

\* sio.connect succeeds, _on_connect runs, the auth message is emitted
Connect ==
    /\ pc = "idle" /\ mpc \in Flows
    /\ timeline' = Append(timeline, [ts |-> now, ev |-> "connect", n |-> 0])
    /\ logs' = Append(logs, <<"x-correlation-id", correlation_id>>)
    /\ conn' = [conn EXCEPT ![flow] = "open"]
    /\ Emit("auth", "auth_wait")
    /\ UNCHANGED <<idem, now, ack_seen, aggs, cb, cbpc, got_event_ack, got_agg, res>>
    /\ UNCHANGED <<ovars, svars>>
    /\ UNCHANGED <<gvars, fvars>>

\* sio.connect raises ConnectionError
ConnectFail ==
    /\ pc = "idle" /\ mpc \in Flows
    /\ pc' = "raised"
    /\ UNCHANGED <<idem, now, deadline, wake, sent, ack_seen, aggs, timeline, logs,
                   cb, cbpc, got_event_ack, got_agg, res>>
    /\ UNCHANGED <<conn, ovars, svars>>
    /\ UNCHANGED <<gvars, fvars>>

AuthWait ==
    /\ pc = "auth_wait" /\ now >= wake
    /\ LET o == wait_for(auth_pred) IN
        /\ o = "sleep" => Sleep /\ UNCHANGED res
        /\ o = "false" => Return(WsResult(FALSE, FALSE, FALSE, FALSE, None))
        /\ o = "true" => Emit("join_class_session", "join_wait") /\ UNCHANGED res
    /\ UNCHANGED <<idem, now, ack_seen, aggs, timeline, logs, cb, cbpc,
                   got_event_ack, got_agg>>
    /\ UNCHANGED <<conn, ovars, svars>>
    /\ UNCHANGED <<gvars, fvars>>

JoinWait ==
    /\ pc = "join_wait" /\ now >= wake
    /\ LET o == wait_for(join_pred) IN
        /\ o = "sleep" => Sleep /\ UNCHANGED res
        /\ o = "false" => Return(WsResult(TRUE, FALSE, FALSE, FALSE, None))
        /\ o = "true" =>
            /\ IF idem THEN Emit("join_class_session", "join2_wait")
                       ELSE Emit("event", "event_ack_wait")
            /\ UNCHANGED res
    /\ UNCHANGED <<idem, now, ack_seen, aggs, timeline, logs, cb, cbpc,
                   got_event_ack, got_agg>>
    /\ UNCHANGED <<conn, ovars, svars>>
    /\ UNCHANGED <<gvars, fvars>>

Join2Wait ==
    /\ pc = "join2_wait" /\ now >= wake
    /\ LET o == wait_for(join2_pred) IN
        /\ o = "sleep" => Sleep /\ UNCHANGED res
        /\ o = "false" => Return(WsResult(TRUE, FALSE, FALSE, FALSE, None))
        /\ o = "true" => Emit("event", "event_ack_wait") /\ UNCHANGED res
    /\ UNCHANGED <<idem, now, ack_seen, aggs, timeline, logs, cb, cbpc,
                   got_event_ack, got_agg>>
    /\ UNCHANGED <<conn, ovars, svars>>
    /\ UNCHANGED <<gvars, fvars>>

EventAckWait_abort ==
    /\ pc = "event_ack_wait" /\ now >= wake
    /\ LET o == wait_for(event_pred) IN
        /\ o = "sleep" => Sleep /\ UNCHANGED <<got_event_ack, res>>
        /\ o = "false" =>
            /\ Return(WsResult(TRUE, TRUE, FALSE, FALSE, None))
            /\ UNCHANGED got_event_ack
        /\ o = "true" =>
            /\ got_event_ack' = TRUE
            /\ pc' = "agg_wait"
            /\ deadline' = now + Timeout
            /\ wake' = now
            /\ UNCHANGED <<sent, res>>
    /\ UNCHANGED <<idem, now, ack_seen, aggs, timeline, logs, cb, cbpc, got_agg>>
    /\ UNCHANGED <<conn, ovars, svars>>
    /\ UNCHANGED <<gvars, fvars>>

EventAckWait ==
    /\ pc = "event_ack_wait" /\ now >= wake
    /\ LET o == wait_for(event_pred) IN
        /\ o = "sleep" => Sleep /\ UNCHANGED got_event_ack
        /\ o # "sleep" =>
            /\ got_event_ack' = (o = "true")
            /\ pc' = "agg_wait"
            /\ deadline' = now + Timeout
            /\ wake' = now
            /\ UNCHANGED sent
    /\ UNCHANGED <<idem, now, ack_seen, aggs, timeline, logs, cb, cbpc, got_agg, res>>
    /\ UNCHANGED <<conn, ovars, svars>>
    /\ UNCHANGED <<gvars, fvars>>

AggWait ==
    /\ pc = "agg_wait" /\ now >= wake
    /\ LET o == wait_for(agg_pred) IN
        /\ o = "sleep" => Sleep /\ UNCHANGED got_agg
        /\ o # "sleep" =>
            /\ got_agg' = (o = "true")
            /\ pc' = "last_agg"
            /\ UNCHANGED <<deadline, wake, sent>>
    /\ UNCHANGED <<idem, now, ack_seen, aggs, timeline, logs, cb, cbpc,
                   got_event_ack, res>>
    /\ UNCHANGED <<conn, ovars, svars>>
    /\ UNCHANGED <<gvars, fvars>>

\* last_agg = aggs[-1] if aggs else None; return
ReadLast ==
    /\ pc = "last_agg"
    /\ Return(WsResult(TRUE, TRUE, got_event_ack, got_agg,
                       IF Len(aggs) > 0 THEN aggs[Len(aggs)] ELSE None))
    /\ UNCHANGED <<idem, now, ack_seen, aggs, timeline, logs, cb, cbpc,
                   got_event_ack, got_agg>>
    /\ UNCHANGED <<conn, ovars, svars>>
    /\ UNCHANGED <<gvars, fvars>>

Driver ==
    \/ Connect
    \/ ConnectFail
    \/ AuthWait
    \/ JoinWait
    \/ Join2Wait
    \/ EventAckWait
    \/ AggWait
    \/ ReadLast

----------------------------------------------------------------------------
\* the receive thread: _on_message, one statement per step

NextCb_buffer_first(m, k) ==
    IF k = 0 /\ m.msg_type = "ack" THEN 3
    ELSE IF k = 0 /\ m.msg_type = "class_session_aggregate" THEN 4
    ELSE IF k > 2 /\ m.correlation_id # 0 THEN 1
    ELSE IF k # 2 /\ m.class_session_id # 0 THEN 2
    ELSE 0

\* the next statement of _on_message after step k whose condition holds
NextCb(m, k) ==
    IF k < 1 /\ m.correlation_id # 0 THEN 1
    ELSE IF k < 2 /\ m.class_session_id # 0 THEN 2
    ELSE IF k < 3 /\ m.msg_type = "ack" THEN 3
    ELSE IF k < 4 /\ m.msg_type = "class_session_aggregate" THEN 4
    ELSE 0

\* a message arrives: timeline.append
on_message_timeline(p) ==
    /\ pc \notin {"idle", "raised"}
    /\ cbpc = 0
    /\ LET m == [p EXCEPT !.t = now, !.n = Received + 1] IN
        /\ timeline' = Append(timeline, [ts |-> now, ev |-> "recv", n |-> m.n])
        /\ cb' = m
        /\ cbpc' = NextCb(m, 0)
    /\ UNCHANGED <<pc, idem, now, deadline, wake, sent, ack_seen, aggs, logs,
                   got_event_ack, got_agg, res>>
    /\ UNCHANGED <<conn, ovars>>
    /\ UNCHANGED <<gvars, fvars>>

on_message_log_cid ==
    /\ cbpc = 1
    /\ logs' = Append(logs, <<"correlation_id", cb.correlation_id>>)
    /\ cbpc' = NextCb(cb, 1)
    /\ UNCHANGED <<pc, idem, now, deadline, wake, sent, ack_seen, aggs, timeline,
                   cb, got_event_ack, got_agg, res>>
    /\ UNCHANGED <<conn, ovars, svars>>
    /\ UNCHANGED <<gvars, fvars>>

on_message_log_csid ==
    /\ cbpc = 2
    /\ logs' = Append(logs, <<"class_session_id", cb.class_session_id>>)
    /\ cbpc' = NextCb(cb, 2)
    /\ UNCHANGED <<pc, idem, now, deadline, wake, sent, ack_seen, aggs, timeline,
                   cb, got_event_ack, got_agg, res>>
    /\ UNCHANGED <<conn, ovars, svars>>
    /\ UNCHANGED <<gvars, fvars>>

on_message_ack_front ==
    /\ cbpc = 3
    /\ ack_seen' = <<cb>> \o ack_seen
    /\ cbpc' = NextCb(cb, 3)
    /\ UNCHANGED <<pc, idem, now, deadline, wake, sent, aggs, timeline, logs,
                   cb, got_event_ack, got_agg, res>>
    /\ UNCHANGED <<conn, ovars, svars>>
    /\ UNCHANGED <<gvars, fvars>>

on_message_ack ==
    /\ cbpc = 3
    /\ ack_seen' = Append(ack_seen, cb)
    /\ cbpc' = NextCb(cb, 3)
    /\ UNCHANGED <<pc, idem, now, deadline, wake, sent, aggs, timeline, logs,
                   cb, got_event_ack, got_agg, res>>
    /\ UNCHANGED <<conn, ovars, svars>>
    /\ UNCHANGED <<gvars, fvars>>

on_message_agg ==
    /\ cbpc = 4
    /\ aggs' = Append(aggs, cb)
    /\ cbpc' = NextCb(cb, 4)
    /\ UNCHANGED <<pc, idem, now, deadline, wake, sent, ack_seen, timeline, logs,
                   cb, got_event_ack, got_agg, res>>
    /\ UNCHANGED <<conn, ovars, svars>>
    /\ UNCHANGED <<gvars, fvars>>

Callback ==
    \/ on_message_log_cid
    \/ on_message_log_csid
    \/ on_message_ack
    \/ on_message_agg

\* the clock
Tick ==
    /\ cbpc = 0
    /\ \/ pc \in Waits /\ now < wake
       \/ pc = "done" /\ mpc = "driver_only" /\ now < MaxTime
    /\ now' = now + 1
    /\ UNCHANGED <<pc, idem, deadline, wake, sent, ack_seen, aggs, timeline, logs,
                   cb, cbpc, got_event_ack, got_agg, res>>
    /\ UNCHANGED <<conn, ovars, svars>>
    /\ UNCHANGED <<gvars, fvars>>

----------------------------------------------------------------------------
\* Spec: one driver and a server that answers the requests it was sent any
\* number of times, in any order and at any time, and pushes aggregates to a
\* connection that asked to join

Solicited(p) ==
    \E i \in 1..Len(sent) :
        sent[i].type = (IF p.msg_type = "ack" THEN p.ack_type ELSE "join_class_session")

AnyServer ==
    /\ mpc = "driver_only"
    /\ Received < MaxMsgs
    /\ \E p \in Inbound : Solicited(p) /\ on_message_timeline(p)
    /\ UNCHANGED svars

Next ==
    \/ Connect
    \/ ConnectFail
    \/ AuthWait
    \/ JoinWait
    \/ Join2Wait
    \/ EventAckWait
    \/ AggWait
    \/ ReadLast
    \/ AnyServer
    \/ on_message_log_cid
    \/ on_message_log_csid
    \/ on_message_ack
    \/ on_message_agg
    \/ Tick

Spec == Init /\ [][Next]_vars

\* the threads are scheduled and time passes
FairSpec == Spec /\ WF_vars(Driver) /\ WF_vars(Callback) /\ WF_vars(Tick)

----------------------------------------------------------------------------
\* the session server of SpecMain: it handles each request once, in order;
\* its acks and pushes reach the driver late or never

\* joined_count of the session for membership mm
JoinedCount(mm, d) == Cardinality(mm) + (IF d /\ 1 \in mm THEN 1 ELSE 0)

\* the server handles the next request of the running driver; twice tells
\* whether it counts a repeated join again
Handle(twice) ==
    /\ mpc \in {"flow1", "flow2", "flow3"}
    /\ srv_done < Len(sent)
    /\ LET req == sent[srv_done + 1]
           ack == Ack(req.type, TRUE, req.correlation_id,
                      IF req.type = "auth" THEN 0 ELSE class_session_id)
       IN  CASE req.type = "auth" ->
                    /\ inbox' = Append(inbox, ack)
                    /\ UNCHANGED <<members, enters, dup>>
             [] req.type = "join_class_session" ->
                    /\ members' = members \cup {flow}
                    /\ dup' = (dup \/ (twice /\ flow \in members))
                    /\ inbox' = inbox \o <<ack>> \o
                         (IF JoinedCount(members', dup') = JoinedCount(members, dup)
                          THEN <<>>
                          ELSE <<Agg(JoinedCount(members', dup'), enters,
                                     req.correlation_id, class_session_id)>>)
                    /\ UNCHANGED enters
             [] req.type = "event" ->
                    /\ enters' = enters + 1
                    /\ inbox' = inbox \o
                         <<ack, Agg(JoinedCount(members, dup), enters + 1,
                                    req.correlation_id, class_session_id)>>
                    /\ UNCHANGED <<members, dup>>
    /\ srv_done' = srv_done + 1
    /\ UNCHANGED <<dvars, conn, ovars>>
    /\ UNCHANGED <<gvars, fvars>>

\* the session server: a repeated join leaves the count alone
ServerHandle == Handle(FALSE)

\* a server whose join is not idempotent
ServerHandleTwice == Handle(TRUE)

ServerDeliver ==
    /\ mpc \in {"flow1", "flow2", "flow3"}
    /\ inbox # <<>>
    /\ on_message_timeline(Head(inbox))
    /\ inbox' = Tail(inbox)
    /\ UNCHANGED <<members, enters, srv_done, dup>>

----------------------------------------------------------------------------
\* main

\* a received dict without the model's receipt time and arrival number
Payload(m) == [m EXCEPT !.t = 0, !.n = 0]

Line(cond, msg) == [tag |-> IF cond THEN "PASS" ELSE "FAIL", msg |-> msg]

Info(msg) == [tag |-> "INFO", msg |-> msg]

\* a new _ws_flow call: fresh locals, a fresh connection
NewFlow ==
    /\ pc' = "idle"
    /\ idem' = FALSE
    /\ deadline' = 0
    /\ wake' = 0
    /\ sent' = <<>>
    /\ ack_seen' = <<>>
    /\ aggs' = <<>>
    /\ timeline' = <<>>
    /\ logs' = <<>>
    /\ cb' = None
    /\ cbpc' = 0
    /\ got_event_ack' = FALSE
    /\ got_agg' = FALSE
    /\ res' = NoResult
    /\ inbox' = <<>>
    /\ srv_done' = 0
    /\ UNCHANGED now

InitMain ==
    /\ FlowStart(TRUE)
    /\ Idle
    /\ GateIdle
    /\ mpc = "post"

\* requests.post(...); r.raise_for_status()
Post ==
    /\ mpc = "post"
    /\ \/ mpc' = "flow1" /\ UNCHANGED exit_code
       \/ mpc' = "aborted" /\ exit_code' = 1
    /\ UNCHANGED <<dvars, conn, svars>>
    /\ UNCHANGED <<flow, results, agg_after_disc, report, written>>
    /\ UNCHANGED <<gvars, fvars>>
    /\ UNCHANGED cids

\* _ws_flow returns to main: cid1, res1, sio1 and cid2, res2, sio2
FlowReturn ==
    /\ mpc \in {"flow1", "flow2"}
    /\ pc = "done"
    /\ srv_done = Len(sent)
    /\ results' = [results EXCEPT ![flow] = [res EXCEPT !.last_aggregate = Payload(@)]]
    /\ cids' = Append(cids, correlation_id)
    /\ flow' = flow + 1
    /\ mpc' = IF mpc = "flow1" THEN "flow2" ELSE "assert"
    /\ NewFlow
    /\ UNCHANGED <<conn, members, enters, dup>>
    /\ UNCHANGED <<agg_after_disc, report, written, exit_code>>
    /\ UNCHANGED <<gvars, fvars>>

\* an exception of _ws_flow leaves main
FlowRaise ==
    /\ mpc \in {"flow1", "flow2", "flow3"}
    /\ pc = "raised"
    /\ mpc' = "aborted"
    /\ exit_code' = 1
    /\ UNCHANGED <<dvars, conn, svars>>
    /\ UNCHANGED <<flow, results, agg_after_disc, report, written>>
    /\ UNCHANGED <<gvars, fvars>>
    /\ UNCHANGED cids

Assertions_stamped ==
    /\ mpc = "assert"
    /\ report' = << Info("class_session_id"), [tag |-> "INFO", msg |-> now] >>
    /\ mpc' = "disc1"
    /\ UNCHANGED <<dvars, conn, svars>>
    /\ UNCHANGED <<flow, results, agg_after_disc, written, exit_code>>
    /\ UNCHANGED <<gvars, fvars>>
    /\ UNCHANGED cids

\* the report up to the exact counts
Assertions ==
    /\ mpc = "assert"
    /\ LET agg1 == results[1].last_aggregate
           agg2 == results[2].last_aggregate
       IN report' =
            << Info("class_session_id"), Info("c1_correlation_id"),
               Info("c2_correlation_id"),
               Line(results[1].event_ack_ok, "ack(event) within 1s (client1)"),
               Line(results[1].got_aggregate, "aggregate within 1s (client1)"),
               Line(results[2].event_ack_ok, "ack(event) within 1s (client2)"),
               Line(results[2].got_aggregate, "aggregate within 1s (client2)"),
               Line(agg1 # None, "client1 received aggregate"),
               Line(agg2 # None, "client2 received aggregate") >>
            \o (IF agg1 # None
                THEN << Line(agg1.joined_count = 1, "joined_count == 1"),
                        Line(agg1.enter_event_count = 1, "enter_event_count == 1") >>
                ELSE <<>>)
            \o (IF agg2 # None
                THEN << Line(agg2.joined_count = 2, "joined_count == 2"),
                        Line(agg2.enter_event_count = 2, "enter_event_count == 2") >>
                ELSE <<>>)
    /\ mpc' = "disc1"
    /\ UNCHANGED <<dvars, conn, svars>>
    /\ UNCHANGED <<flow, results, agg_after_disc, written, exit_code>>
    /\ UNCHANGED <<gvars, fvars>>
    /\ UNCHANGED cids

Disconnect1_skipped ==
    /\ mpc = "disc1"
    /\ mpc' = "flow3"
    /\ UNCHANGED <<dvars, conn, svars>>
    /\ UNCHANGED <<flow, results, agg_after_disc, report, written, exit_code>>
    /\ UNCHANGED <<gvars, fvars>>
    /\ UNCHANGED cids

\* sio1.disconnect(); time.sleep(0.2)
Disconnect1 ==
    /\ mpc = "disc1"
    /\ conn' = [conn EXCEPT ![1] = "closed"]
    /\ members' = members \ {1}
    /\ mpc' = "flow3"
    /\ UNCHANGED <<dvars, enters, inbox, srv_done, dup>>
    /\ UNCHANGED <<flow, results, agg_after_disc, report, written, exit_code>>
    /\ UNCHANGED <<gvars, fvars>>
    /\ UNCHANGED cids

\* _get_aggregate after its _ws_flow call, and the assertion on its result
get_aggregate ==
    /\ mpc = "flow3"
    /\ pc = "done"
    /\ srv_done = Len(sent)
    /\ conn' = [conn EXCEPT ![3] = "closed"]
    /\ members' = members \ {3}
    /\ IF res.last_aggregate = None
       THEN /\ mpc' = "aborted"
            /\ exit_code' = 1
            /\ UNCHANGED <<agg_after_disc, report>>
       ELSE /\ agg_after_disc' = Payload(res.last_aggregate)
            /\ report' = Append(report, Line(res.last_aggregate.joined_count = 2,
                                             "after disconnect + new join (expected 2)"))
            /\ mpc' = "disc2"
            /\ UNCHANGED exit_code
    /\ NewFlow
    /\ UNCHANGED <<flow, results, written, enters, dup>>
    /\ UNCHANGED <<gvars, fvars>>
    /\ UNCHANGED cids

\* sio2.disconnect()
Disconnect2 ==
    /\ mpc = "disc2"
    /\ conn' = [conn EXCEPT ![2] = "closed"]
    /\ members' = members \ {2}
    /\ mpc' = "write"
    /\ UNCHANGED <<dvars, enters, inbox, srv_done, dup>>
    /\ UNCHANGED <<flow, results, agg_after_disc, report, written, exit_code>>
    /\ UNCHANGED <<gvars, fvars>>
    /\ UNCHANGED cids

\* the four _write calls
WriteArtifacts ==
    /\ mpc = "write"
    /\ written' = written \cup Files
    \* correlation-ids.txt: f"{cid1}\n{cid2}\n"
    /\ ids' = cids
    /\ mpc' = "return"
    /\ UNCHANGED <<dvars, conn, svars>>
    /\ UNCHANGED <<flow, results, agg_after_disc, report, exit_code>>
    /\ UNCHANGED <<export, spans, gpc, gi, chk>>
    /\ UNCHANGED fvars
    /\ UNCHANGED cids

Exit_any_not_pass ==
    /\ mpc = "return"
    /\ exit_code' = IF \E i \in 1..Len(report) : report[i].tag # "PASS" THEN 2 ELSE 0
    /\ mpc' = "exited"
    /\ UNCHANGED <<dvars, conn, svars>>
    /\ UNCHANGED <<flow, results, agg_after_disc, report, written>>
    /\ UNCHANGED <<gvars, fvars>>
    /\ UNCHANGED cids

\* return 2 if any(x.startswith("FAIL") for x in report) else 0
Exit ==
    /\ mpc = "return"
    /\ exit_code' = IF \E i \in 1..Len(report) : report[i].tag = "FAIL" THEN 2 ELSE 0
    /\ mpc' = "exited"
    /\ UNCHANGED <<dvars, conn, svars>>
    /\ UNCHANGED <<flow, results, agg_after_disc, report, written>>
    /\ UNCHANGED <<gvars, fvars>>
    /\ UNCHANGED cids

Main ==
    \/ Post
    \/ FlowReturn
    \/ FlowRaise
    \/ Assertions
    \/ Disconnect1
    \/ get_aggregate
    \/ Disconnect2
    \/ WriteArtifacts
    \/ Exit

NextMain ==
    \/ Connect
    \/ ConnectFail
    \/ AuthWait
    \/ JoinWait
    \/ Join2Wait
    \/ EventAckWait
    \/ AggWait
    \/ ReadLast
    \/ ServerHandle
    \/ ServerDeliver
    \/ on_message_log_cid
    \/ on_message_log_csid
    \/ on_message_ack
    \/ on_message_agg
    \/ Tick
    \/ Post
    \/ FlowReturn
    \/ FlowRaise
    \/ Assertions
    \/ Disconnect1
    \/ get_aggregate
    \/ Disconnect2
    \/ WriteArtifacts
    \/ Exit

SpecMain == InitMain /\ [][NextMain]_vars

\* main against the server whose join is not idempotent
NextTwice ==
    \/ Connect
    \/ ConnectFail
    \/ AuthWait
    \/ JoinWait
    \/ Join2Wait
    \/ EventAckWait
    \/ AggWait
    \/ ReadLast
    \/ ServerHandleTwice
    \/ ServerDeliver
    \/ on_message_log_cid
    \/ on_message_log_csid
    \/ on_message_ack
    \/ on_message_agg
    \/ Tick
    \/ Post
    \/ FlowReturn
    \/ FlowRaise
    \/ Assertions
    \/ Disconnect1
    \/ get_aggregate
    \/ Disconnect2
    \/ WriteArtifacts
    \/ Exit

SpecTwice == InitMain /\ [][NextTwice]_vars

FairMain ==
    /\ SpecMain
    /\ WF_vars(Driver) /\ WF_vars(Callback) /\ WF_vars(Tick)
    /\ WF_vars(ServerHandle) /\ WF_vars(Main)

----------------------------------------------------------------------------
\* observability_gate.py: _check_trace_chain, one loop iteration per step

\* ids[:10]
MaxCandidates == 10

\* REQUIRED_SPAN_NAME_SUBSTRINGS
REQUIRED_SPAN_NAME_SUBSTRINGS ==
    {"ws.message", "ws.event.class_enter", "pg.prisma.classEvent.create",
     "redis.aggregate.incEnter", "ws.push.class_session_aggregate"}

\* a span name: whether it is a string, and the required substrings it has
Name(isstr, has) == [isstr |-> isstr, has |-> has]

\* a span of the export; corr and csid are "" when the attribute is absent,
\* empty or not a string
Span(name, corr, csid) == [name |-> name, corr |-> corr, csid |-> csid]

span_by_corr_any(sp, cid) == sp

\* span_by_corr.get(cid, [])
span_by_corr(sp, cid) == {x \in sp : x.corr # "" /\ x.corr = cid}

\* names = [c.get("name") for c in candidates if isinstance(c.get("name"), str)]
names(candidates) == {x.name : x \in {c \in candidates : c.name.isstr}}

has_name(nn, sub) == \E n \in nn : sub \in n.has

has_class_session(candidates) == \E c \in candidates : c.csid # ""

has_ws(nn) == has_name(nn, "ws.message") \/ has_name(nn, "ws.event.class_enter")

has_pg(nn) == has_name(nn, "pg.prisma.classEvent.create")

has_redis(nn) == has_name(nn, "redis.aggregate.incEnter")

has_push(nn) == has_name(nn, "ws.push.class_session_aggregate")

\* the condition of line 305 for candidate cid
chain_ok(sp, cid) ==
    LET candidates == span_by_corr(sp, cid)
        nn == names(candidates)
    IN  /\ candidates # {}
        /\ has_ws(nn) /\ has_pg(nn) /\ has_redis(nn) /\ has_push(nn)
        /\ has_class_session(candidates)

Take(s, n) == SubSeq(s, 1, IF Len(s) < n THEN Len(s) ELSE n)

FailResult_generic(text) == CheckResult(FALSE, "FAIL", "failed", "")

PassResult(cid) == CheckResult(TRUE, "PASS", "found_correlated_trace_spans", cid)

FailResult(text) == CheckResult(FALSE, "FAIL", text, "")

\* lines 222-259: manifests, the export file, its JSON, its spans array
LoadExport ==
    /\ gpc = "start"
    /\ CASE export = "no_manifest" ->
                /\ chk' = CheckResult(TRUE, "N/A", "no_manifests", "")
                /\ gpc' = "done"
         [] export = "missing" ->
                /\ chk' = FailResult("missing_trace_export")
                /\ gpc' = "done"
         [] export = "invalid_json" ->
                /\ chk' = FailResult("not_valid_json")
                /\ gpc' = "done"
         [] export = "not_object" ->
                \* data.get raises AttributeError
                /\ gpc' = "raised"
                /\ UNCHANGED chk
         [] OTHER ->
                \* an object; only the real export has a spans list
                IF export # "ok" \/ spans = {}
                THEN /\ chk' = FailResult("missing_non_empty_spans")
                     /\ gpc' = "done"
                ELSE /\ gpc' = "ids"
                     /\ UNCHANGED chk
    /\ UNCHANGED <<export, ids, spans, gi>>
    /\ UNCHANGED <<dvars, conn, ovars, svars>>
    /\ UNCHANGED fvars

\* lines 261-287: the candidate list, span_by_corr
ReadIds ==
    /\ gpc = "ids"
    /\ IF ids = <<>>
       THEN /\ chk' = FailResult("correlation_ids_empty")
            /\ gpc' = "done"
            /\ UNCHANGED gi
       ELSE /\ gpc' = "scan"
            /\ gi' = 1
            /\ UNCHANGED chk
    /\ UNCHANGED <<export, ids, spans>>
    /\ UNCHANGED <<dvars, conn, ovars, svars>>
    /\ UNCHANGED fvars

ScanCandidate_last ==
    /\ gpc = "scan"
    /\ gi <= Len(Take(ids, MaxCandidates))
    /\ chk' = IF chain_ok(spans, ids[gi]) THEN PassResult(ids[gi]) ELSE chk
    /\ gi' = gi + 1
    /\ gpc' = IF gi = Len(Take(ids, MaxCandidates)) /\ chk'.ok THEN "done" ELSE "scan"
    /\ UNCHANGED <<export, ids, spans>>
    /\ UNCHANGED <<dvars, conn, ovars, svars>>
    /\ UNCHANGED fvars

\* lines 290-315: one iteration of `for cid in ids[:10]`
ScanCandidate ==
    /\ gpc = "scan"
    /\ gi <= Len(Take(ids, MaxCandidates))
    /\ IF chain_ok(spans, ids[gi])
       THEN /\ chk' = PassResult(ids[gi])
            /\ gpc' = "done"
            /\ UNCHANGED gi
       ELSE /\ gi' = gi + 1
            /\ UNCHANGED <<gpc, chk>>
    /\ UNCHANGED <<export, ids, spans>>
    /\ UNCHANGED <<dvars, conn, ovars, svars>>
    /\ UNCHANGED fvars

\* lines 317-326: the loop ended without a return
NoChain ==
    /\ gpc = "scan"
    /\ gi > Len(Take(ids, MaxCandidates))
    /\ chk' = FailResult("no_complete_span_chain")
    /\ gpc' = "done"
    /\ UNCHANGED <<export, ids, spans, gi>>
    /\ UNCHANGED <<dvars, conn, ovars, svars>>
    /\ UNCHANGED fvars

\* _check_trace_chain on a loaded export as a function of its inputs
RECURSIVE scan(_, _, _)
scan(idl, sp, i) ==
    IF i > Len(idl) THEN FailResult("no_complete_span_chain")
    ELSE IF chain_ok(sp, idl[i]) THEN PassResult(idl[i])
    ELSE scan(idl, sp, i + 1)

check_trace_chain(idl, sp) ==
    IF sp = {} THEN FailResult("missing_non_empty_spans")
    ELSE IF idl = <<>> THEN FailResult("correlation_ids_empty")
    ELSE scan(Take(idl, MaxCandidates), sp, 1)

\* the exports and candidate lists the gate is run on
Kinds == <<{"ws.message", "ws.event.class_enter"}, {"pg.prisma.classEvent.create"},
           {"redis.aggregate.incEnter"}, {"ws.push.class_session_aggregate"}>>

\* spans of correlation id cid named after kk, those of cc with class_session_id
Chain(cid, kk, cc) ==
    {Span(Name(TRUE, {k}), cid, IF k \in cc THEN "cs1" ELSE "") : k \in kk}

ChainsX ==
    {Chain("X", kk, cc) :
        kk \in SUBSET REQUIRED_SPAN_NAME_SUBSTRINGS,
        cc \in {{}, REQUIRED_SPAN_NAME_SUBSTRINGS} \cup
               {{k} : k \in REQUIRED_SPAN_NAME_SUBSTRINGS}}

FullY == REQUIRED_SPAN_NAME_SUBSTRINGS \ {"ws.event.class_enter"}

ChainsY ==
    { {}, Chain("Y", FullY, FullY),
      Chain("Y", FullY \ {"pg.prisma.classEvent.create"}, FullY) }

\* spans without a usable correlation id, name or class_session_id
Noise ==
    { {}, {Span(Name(TRUE, {k}), "", "cs1") : k \in REQUIRED_SPAN_NAME_SUBSTRINGS}
          \cup {Span(Name(FALSE, {}), "X", ""), Span(Name(TRUE, {}), "Y", "")} }

Pad(id, n) == [i \in 1..n |-> id]

IdLists ==
    {<<>>} \cup {<<a>> : a \in {"X", "Y", "Z"}}
    \cup {<<a, b>> : a \in {"X", "Y", "Z"}, b \in {"X", "Y"}}
    \cup {Pad(a, n) \o <<"X">> : a \in {"Y", "Z"},
                                 n \in {MaxCandidates - 1, MaxCandidates}}

\* the gate's own variables before main
GateStart ==
    /\ gi = 0
    /\ chk = NoCheck
    /\ tok = NoCheck
    /\ gexit = -1
    /\ gwritten = <<>>
    /\ prev = <<>>
    /\ ran = <<>>
    /\ timelines = <<<<>>, <<>>>>
    /\ tfile = <<>>

InitTrace ==
    /\ FlowStart(FALSE)
    /\ Idle
    /\ mpc = "gate"
    /\ gpc = "start"
    /\ GateStart
    /\ runs = 1
    /\ obs = {"dir", "service-logs.txt", "correlation-ids.txt"}
    /\ svc = <<>>
    /\ \/ /\ export \in {"no_manifest", "missing", "invalid_json", "not_object",
                        "marker", "placeholder", "pending"}
          /\ ids = <<"X">>
          /\ spans = {}
       \/ /\ export = "ok"
          /\ ids \in IdLists
          /\ \E x \in ChainsX, y \in ChainsY, z \in Noise : spans = x \cup y \cup z

NextTrace ==
    \/ LoadExport
    \/ ReadIds
    \/ ScanCandidate
    \/ NoChain

SpecTrace == InitTrace /\ [][NextTrace]_vars

----------------------------------------------------------------------------
\* observability_gate.py: _check_token_evidence and main

CORRELATION_HEADER == "x-correlation-id"
CORRELATION_FIELD == "correlation_id"
DEFAULT_BUSINESS_FIELDS == {"class_session_id"}

Tokens == {CORRELATION_HEADER, CORRELATION_FIELD} \cup DEFAULT_BUSINESS_FIELDS

\* a line of text: the token it starts with (or another word) and a value
TextLine(key, val) == <<key, val>>

\* the tokens that occur in the text of service-logs.txt and
\* correlation-ids.txt
TextTokens(sv, idl) ==
    {t \in Tokens :
        \/ \E i \in 1..Len(sv) : sv[i][1] = t
        \/ t = CORRELATION_FIELD
             /\ \E i \in 1..Len(idl) : idl[i] = "placeholder-correlation_id"}

\* _check_token_evidence
check_token_evidence(ex, o, sv, idl) ==
    IF ex = "no_manifest" THEN CheckResult(TRUE, "N/A", "no_manifests", "")
    ELSE IF "dir" \notin o THEN FailResult("missing_observability_dir")
    ELSE IF ~({"service-logs.txt", "correlation-ids.txt"} \subseteq o)
         THEN FailResult("missing_evidence_files")
    ELSE IF Tokens \subseteq TextTokens(sv, idl)
         THEN CheckResult(TRUE, "PASS", "tokens_present", "")
    ELSE FailResult("missing_tokens")

TokenEvidence_always_trace ==
    /\ gpc = "main"
    /\ tok' = check_token_evidence(export, obs, svc, ids)
    /\ gpc' = "start"
    /\ UNCHANGED chk
    /\ UNCHANGED <<export, ids, spans, gi>>
    /\ UNCHANGED <<obs, svc, gexit, gwritten, runs, prev, ran, timelines, tfile>>
    /\ UNCHANGED <<dvars, conn, ovars, svars>>

\* main, lines 331-346: the token check, then the trace check or its skip
TokenEvidence ==
    /\ gpc = "main"
    /\ tok' = check_token_evidence(export, obs, svc, ids)
    /\ IF tok'.ok
       THEN /\ gpc' = "start"
            /\ UNCHANGED chk
       ELSE /\ chk' = FailResult("skipped_token_evidence_failed")
            /\ gpc' = "done"
    /\ UNCHANGED <<export, ids, spans, gi>>
    /\ UNCHANGED <<obs, svc, gexit, gwritten, runs, prev, ran, timelines, tfile>>
    /\ UNCHANGED <<dvars, conn, ovars, svars>>

GateReturn_consumes ==
    /\ gpc = "done"
    /\ gwritten' = <<tok, chk>>
    /\ gexit' = IF tok.ok /\ chk.ok THEN 0 ELSE 2
    /\ gpc' = "returned"
    /\ ids' = <<>>
    /\ UNCHANGED <<export, spans, gi, chk>>
    /\ UNCHANGED <<obs, svc, tok, runs, prev, ran, timelines, tfile>>
    /\ UNCHANGED <<dvars, conn, ovars, svars>>

\* main, lines 348-361: overall_ok, _write_evidence, return 0 or 2
GateReturn ==
    /\ gpc = "done"
    /\ gwritten' = <<tok, chk>>
    /\ gexit' = IF tok.ok /\ chk.ok THEN 0 ELSE 2
    /\ gpc' = "returned"
    /\ UNCHANGED <<export, ids, spans, gi, chk>>
    /\ UNCHANGED <<obs, svc, tok, runs, prev, ran, timelines, tfile>>
    /\ UNCHANGED <<dvars, conn, ovars, svars>>

\* main, lines 363-382: an exception; the runtime check is written, return 3
GateRaise ==
    /\ gpc = "raised"
    /\ gwritten' = <<FailResult("runtime")>>
    /\ gexit' = 3
    /\ gpc' = "returned"
    /\ UNCHANGED <<export, ids, spans, gi, chk>>
    /\ UNCHANGED <<obs, svc, tok, runs, prev, ran, timelines, tfile>>
    /\ UNCHANGED <<dvars, conn, ovars, svars>>

\* runs of the gate on the same files
MaxRuns == 2

\* what a run reports: the two conclusions, the id named, the exit code
Verdict == <<tok.conclusion, chk.conclusion, chk.evidence.cid, gexit>>

\* the gate is run again
Rerun ==
    /\ gpc = "returned"
    /\ runs < MaxRuns
    /\ prev' = Verdict
    /\ runs' = runs + 1
    /\ gpc' = "main"
    /\ gi' = 0
    /\ chk' = NoCheck
    /\ tok' = NoCheck
    /\ gexit' = -1
    /\ UNCHANGED <<export, ids, spans>>
    /\ UNCHANGED <<obs, svc, gwritten, ran, timelines, tfile>>
    /\ UNCHANGED <<dvars, conn, ovars, svars>>

\* the files the gate is run on
GateSpans ==
    { {}, Chain("X", FullY, FullY),
      Chain("X", FullY \ {"pg.prisma.classEvent.create"}, FullY),
      Chain("X", FullY, FullY) \cup Chain("Y", FullY, FullY) }

GateLogs ==
    { <<>>,
      <<TextLine(CORRELATION_HEADER, "")>>,
      <<TextLine(CORRELATION_HEADER, ""), TextLine(CORRELATION_FIELD, "")>>,
      <<TextLine(CORRELATION_HEADER, ""), TextLine(CORRELATION_FIELD, ""),
        TextLine("class_session_id", "")>>,
      <<TextLine(CORRELATION_HEADER, "X"), TextLine("class_session_id", "cs1")>> }

InitGate ==
    /\ FlowStart(FALSE)
    /\ Idle
    /\ mpc = "gate"
    /\ gpc = "main"
    /\ GateStart
    /\ runs = 1
    /\ export \in {"no_manifest", "missing", "invalid_json", "not_object", "marker", "ok"}
    /\ spans \in (IF export = "ok" THEN GateSpans ELSE {{}})
    /\ obs \in {{}, {"dir"}, {"dir", "service-logs.txt"},
                {"dir", "service-logs.txt", "correlation-ids.txt"}}
    /\ svc \in (IF "service-logs.txt" \in obs THEN GateLogs ELSE {<<>>})
    /\ ids \in (IF "correlation-ids.txt" \in obs
                THEN {<<>>, <<"X">>, <<"Y", "X">>, <<"placeholder-correlation_id">>}
                ELSE {<<>>})

NextGate ==
    \/ TokenEvidence
    \/ LoadExport
    \/ ReadIds
    \/ ScanCandidate
    \/ NoChain
    \/ GateReturn
    \/ GateRaise
    \/ Rerun

SpecGate == InitGate /\ [][NextGate]_vars

----------------------------------------------------------------------------
\* the scripts that write artifacts/observability: the skeleton creator, the
\* evidence generator, the e2e runner, and the API's span export

\* dict.fromkeys(logs): each line once, in the order of first occurrence
RECURSIVE Dedup(_)
Dedup(s) ==
    IF s = <<>> THEN <<>>
    ELSE LET r == Dedup(SubSeq(s, 1, Len(s) - 1)) IN
            IF s[Len(s)] \in Range(r) THEN r ELSE Append(r, s[Len(s)])

ObsFiles == {"dir", "service-logs.txt", "correlation-ids.txt"}

\* the text the skeleton creator writes into a file that is not JSON
PlaceholderText(rel) ==
    <<TextLine("# PLACEHOLDER", rel), TextLine("generated_utc", ""),
      TextLine("This file is required", ""), TextLine("It will be overwritten", "")>>

PlaceholderIds ==
    <<"# PLACEHOLDER (observability/correlation-ids.txt)", "generated_utc",
      "This file is required", "It will be overwritten">>

\* how many scripts are run one after the other
MaxScripts == 4

Skeleton_overwrite ==
    /\ mpc = "scripts"
    /\ Len(ran) < MaxScripts
    /\ export' = "placeholder"
    /\ svc' = PlaceholderText("observability/service-logs.txt")
    /\ ids' = PlaceholderIds
    /\ obs' = ObsFiles
    /\ ran' = Append(ran, "skeleton")
    /\ UNCHANGED <<spans, gpc, gi, chk>>
    /\ UNCHANGED <<tok, gexit, gwritten, runs, prev, timelines, tfile>>
    /\ UNCHANGED <<dvars, conn, ovars, svars>>

\* create_pr_artifacts_skeleton.main: _write_if_missing of every required file
Skeleton ==
    /\ mpc = "scripts"
    /\ Len(ran) < MaxScripts
    /\ export' = IF export = "missing" THEN "placeholder" ELSE export
    /\ svc' = IF "service-logs.txt" \in obs THEN svc
              ELSE PlaceholderText("observability/service-logs.txt")
    /\ ids' = IF "correlation-ids.txt" \in obs THEN ids ELSE PlaceholderIds
    /\ obs' = ObsFiles
    /\ ran' = Append(ran, "skeleton")
    /\ UNCHANGED <<spans, gpc, gi, chk>>
    /\ UNCHANGED <<tok, gexit, gwritten, runs, prev, timelines, tfile>>
    /\ UNCHANGED <<dvars, conn, ovars, svars>>

\* generate_pr2_evidence.main: the skeleton creator first, then the
\* observability placeholders for the files that still do not exist
Generator ==
    /\ mpc = "scripts"
    /\ Len(ran) < MaxScripts
    /\ LET export1 == IF export = "missing" THEN "placeholder" ELSE export
           svc1 == IF "service-logs.txt" \in obs THEN svc
                   ELSE PlaceholderText("observability/service-logs.txt")
           ids1 == IF "correlation-ids.txt" \in obs THEN ids ELSE PlaceholderIds
           obs1 == ObsFiles
       IN  /\ export' = IF export1 = "missing" THEN "pending" ELSE export1
           /\ svc' = IF "service-logs.txt" \in obs1 THEN svc1
                     ELSE <<TextLine(CORRELATION_HEADER, "placeholder-x-correlation-id"),
                            TextLine(CORRELATION_FIELD, "placeholder-correlation_id"),
                            TextLine("class_session_id", "placeholder-class_session_id")>>
           /\ ids' = IF "correlation-ids.txt" \in obs1 THEN ids1
                     ELSE <<"placeholder-correlation_id">>
           /\ obs' = obs1
    /\ ran' = Append(ran, "generator")
    /\ UNCHANGED <<spans, gpc, gi, chk>>
    /\ UNCHANGED <<tok, gexit, gwritten, runs, prev, timelines, tfile>>
    /\ UNCHANGED <<dvars, conn, ovars, svars>>

\* the API process writes the real export to PR2_TRACE_EXPORT_PATH
ApiExport ==
    /\ mpc = "scripts"
    /\ export # "ok"
    /\ export' = "ok"
    /\ \E kk \in {FullY, FullY \ {"pg.prisma.classEvent.create"}} :
            spans' = Chain("X", kk, FullY)
    /\ UNCHANGED <<ids, gpc, gi, chk>>
    /\ UNCHANGED <<obs, svc, tok, gexit, gwritten, runs, prev, ran, timelines, tfile>>
    /\ UNCHANGED <<dvars, conn, ovars, svars>>

\* service_logs of a driver: line 107, then lines 113 and 115 per message
DriverLogs(cid) ==
    {<<TextLine(CORRELATION_HEADER, cid)>> \o tail :
        tail \in { <<>>,
                   <<TextLine(CORRELATION_FIELD, cid)>>,
                   <<TextLine(CORRELATION_FIELD, "None")>>,
                   <<TextLine(CORRELATION_FIELD, cid), TextLine("class_session_id", "cs1")>>,
                   <<TextLine(CORRELATION_FIELD, cid), TextLine("class_session_id", "cs1"),
                     TextLine(CORRELATION_FIELD, cid), TextLine("class_session_id", "cs1")>> }}

\* the lines of service-logs.txt, run_pr2_e2e_ws.main lines 286-299
ServiceLogs_drivers_only(l1, l2, cid1, cid2) == Dedup(l1 \o l2)

ServiceLogs(l1, l2, cid1, cid2) ==
    Dedup(<<TextLine("x-correlation-id", ""), TextLine("correlation_id", ""),
            TextLine("class_session_id", "")>>
          \o l1 \o l2
          \o <<TextLine("correlation_id", cid1), TextLine("correlation_id", cid2),
               TextLine("class_session_id", "cs1"), TextLine("x-correlation-id", cid1)>>)

\* run_pr2_e2e_ws.main runs to its return: the writes of lines 282-312
RunnerMain ==
    /\ mpc = "scripts"
    /\ Len(ran) < MaxScripts
    /\ \E c \in {<<"X", "Y">>, <<"Y", "X">>} :
        \E l1 \in DriverLogs(c[1]), l2 \in DriverLogs(c[2]) :
            /\ svc' = ServiceLogs(l1, l2, c[1], c[2])
            /\ ids' = c
    /\ obs' = ObsFiles
    /\ export' = IF export = "missing" THEN "marker" ELSE export
    /\ ran' = Append(ran, "runner")
    /\ UNCHANGED <<spans, gpc, gi, chk>>
    /\ UNCHANGED <<tok, gexit, gwritten, runs, prev, timelines, tfile>>
    /\ UNCHANGED <<dvars, conn, ovars, svars>>

\* run_pr2_e2e_ws.main raises before line 282 (line 216, or inside _ws_flow)
RunnerRaise ==
    /\ mpc = "scripts"
    /\ Len(ran) < MaxScripts
    /\ ran' = Append(ran, "runner_raised")
    /\ UNCHANGED <<export, ids, spans, gpc, gi, chk>>
    /\ UNCHANGED <<obs, svc, tok, gexit, gwritten, runs, prev, timelines, tfile>>
    /\ UNCHANGED <<dvars, conn, ovars, svars>>

InitFiles ==
    /\ FlowStart(FALSE)
    /\ Idle
    /\ mpc = "scripts"
    /\ gpc = "off"
    /\ GateStart
    /\ runs = 0
    /\ export = "missing"
    /\ spans = {}
    /\ ids = <<>>
    /\ obs = {}
    /\ svc = <<>>

NextFiles ==
    \/ Skeleton
    \/ Generator
    \/ ApiExport
    \/ RunnerMain
    \/ RunnerRaise

SpecFiles == InitFiles /\ [][NextFiles]_vars

----------------------------------------------------------------------------
\* the timelines of clients 1 and 2 and e2e-timeline.txt: main with each
\* _ws_flow call reduced to its connection, its receive callbacks and its
\* return

\* lines one client's timeline holds at most
MaxLines == 3
\* the clock stops at MaxClock
MaxClock == 3

\* sio.connect of the running flow; _on_connect appends to its timeline
OnConnect ==
    /\ mpc \in {"flow1", "flow2"}
    /\ conn[flow] = "none"
    /\ conn' = [conn EXCEPT ![flow] = "open"]
    /\ timelines' = [timelines EXCEPT
                        ![flow] = Append(@, [ts |-> now, ev |-> "connect", n |-> 0])]
    /\ UNCHANGED <<pc, idem, now, deadline, wake, sent, ack_seen, aggs, timeline, logs,
                   cb, cbpc, got_event_ack, got_agg, res>>
    /\ UNCHANGED <<ovars, svars, gvars>>
    /\ UNCHANGED <<obs, svc, tok, gexit, gwritten, runs, prev, ran, tfile>>

\* _on_message on client k's connection, on its receive thread: the list it
\* appends to is the one the result of client k holds
OnMessage(k) ==
    /\ conn[k] = "open"
    /\ Len(timelines[k]) < MaxLines
    /\ timelines' = [timelines EXCEPT
                        ![k] = Append(@, [ts |-> now, ev |-> "recv", n |-> Len(@)])]
    /\ UNCHANGED <<dvars, conn, ovars, svars, gvars>>
    /\ UNCHANGED <<obs, svc, tok, gexit, gwritten, runs, prev, ran, tfile>>

\* time passes
ClockTick ==
    /\ mpc \in {"flow1", "flow2", "disc1", "flow3", "disc2", "write"}
    /\ now < MaxClock
    /\ now' = now + 1
    /\ UNCHANGED <<pc, idem, deadline, wake, sent, ack_seen, aggs, timeline, logs,
                   cb, cbpc, got_event_ack, got_agg, res>>
    /\ UNCHANGED <<conn, ovars, svars, gvars, fvars>>

\* _ws_flow returns for client 1, then for client 2; the connection stays open
FlowReturns ==
    /\ mpc \in {"flow1", "flow2"}
    /\ conn[flow] = "open"
    /\ flow' = flow + 1
    /\ mpc' = IF mpc = "flow1" THEN "flow2" ELSE "disc1"
    /\ UNCHANGED <<dvars, conn, svars, gvars, fvars>>
    /\ UNCHANGED <<results, cids, agg_after_disc, report, written, exit_code>>

\* sio.connect raises: main ends
FlowFails ==
    /\ mpc \in {"flow1", "flow2"}
    /\ conn[flow] = "none"
    /\ mpc' = "aborted"
    /\ exit_code' = 1
    /\ UNCHANGED <<dvars, conn, svars, gvars, fvars>>
    /\ UNCHANGED <<flow, results, cids, agg_after_disc, report, written>>

\* sio1.disconnect()
DisconnectFirst ==
    /\ mpc = "disc1"
    /\ conn' = [conn EXCEPT ![1] = "closed"]
    /\ mpc' = "flow3"
    /\ UNCHANGED <<dvars, svars, gvars, fvars>>
    /\ UNCHANGED <<flow, results, cids, agg_after_disc, report, written, exit_code>>

\* _get_aggregate: the third client, whose timeline is dropped
ThirdClient ==
    /\ mpc = "flow3"
    /\ conn' = [conn EXCEPT ![3] = "closed"]
    /\ \/ mpc' = "disc2" /\ UNCHANGED exit_code
       \/ mpc' = "aborted" /\ exit_code' = 1
    /\ UNCHANGED <<dvars, svars, gvars, fvars>>
    /\ UNCHANGED <<flow, results, cids, agg_after_disc, report, written>>

\* sio2.disconnect()
DisconnectSecond ==
    /\ mpc = "disc2"
    /\ conn' = [conn EXCEPT ![2] = "closed"]
    /\ mpc' = "write"
    /\ UNCHANGED <<dvars, svars, gvars, fvars>>
    /\ UNCHANGED <<flow, results, cids, agg_after_disc, report, written, exit_code>>

\* lines 302-306: res1.timeline, res2.timeline, the closing line
WriteTimeline ==
    /\ mpc = "write"
    /\ tfile' = timelines[1] \o timelines[2]
                    \o <<[ts |-> now, ev |-> "disconnects", n |-> 0]>>
    /\ written' = written \cup {"e2e-timeline.txt"}
    /\ mpc' = "return"
    /\ UNCHANGED <<dvars, conn, svars, gvars>>
    /\ UNCHANGED <<flow, results, cids, agg_after_disc, report, exit_code>>
    /\ UNCHANGED <<obs, svc, tok, gexit, gwritten, runs, prev, ran, timelines>>

InitTimeline ==
    /\ FlowStart(FALSE)
    /\ Idle
    /\ GateIdle
    /\ mpc = "flow1"

NextTimeline ==
    \/ OnConnect
    \/ \E k \in 1..2 : OnMessage(k)
    \/ ClockTick
    \/ FlowReturns
    \/ FlowFails
    \/ DisconnectFirst
    \/ ThirdClient
    \/ DisconnectSecond
    \/ WriteTimeline

SpecTimeline == InitTimeline /\ [][NextTimeline]_vars

----------------------------------------------------------------------------
\* vocabulary of the properties

SentTypes == [i \in 1..Len(sent) |-> sent[i].type]

Protocol ==
    IF idem
    THEN <<"auth", "join_class_session", "join_class_session", "event">>
    ELSE <<"auth", "join_class_session", "event">>

IsPrefix(s, t) == Len(s) <= Len(t) /\ \A i \in 1..Len(s) : s[i] = t[i]

EventIdx == Len(Protocol)

EventSent == Len(sent) >= EventIdx

\* successful acks of type at among the first rx inbound messages
OkAcksBy(at, rx) ==
    {i \in 1..Len(ack_seen) : IsOkAck(ack_seen[i], at) /\ ack_seen[i].n <= rx}

\* successful acks of type at received no later than time d
OkAcksUntil(at, d) ==
    {i \in 1..Len(ack_seen) : IsOkAck(ack_seen[i], at) /\ ack_seen[i].t <= d}

Rank(p) ==
    CASE p = "idle" -> 0
      [] p = "auth_wait" -> 1
      [] p = "join_wait" -> 2
      [] p = "join2_wait" -> 3
      [] p = "event_ack_wait" -> 4
      [] p = "agg_wait" -> 5
      [] p = "last_agg" -> 6
      [] OTHER -> 7

----------------------------------------------------------------------------
\* C1: the outbound messages are a prefix of auth, join, (join), event; join
\* is emitted only after a successful auth ack was received, the repeated
\* join and the event only after the successful join acks they require; each
\* emission moves the driver strictly forward and the driver never moves back.
C1_Inv ==
    /\ IsPrefix(SentTypes, Protocol)
    /\ Len(sent) >= 2 => OkAcksBy("auth", sent[2].rx) # {}
    /\ Len(sent) >= 3 => OkAcksBy("join_class_session", sent[3].rx) # {}
    /\ (idem /\ Len(sent) >= 4) =>
            Cardinality(OkAcksBy("join_class_session", sent[4].rx)) >= 2

C1_Step ==
    /\ Rank(pc') >= Rank(pc)
    /\ sent' # sent =>
        /\ Rank(pc') > Rank(pc)
        /\ \E x \in {sent'[Len(sent')]} : sent' = Append(sent, x)

C1_ProtocolOrder == []C1_Inv /\ [][C1_Step]_vars

C1_Witness == idem /\ pc = "done" /\ Len(sent) = 4

\* C2: event_ack_ok only if a successful event ack was received within the
\* deadline counted from the event send, and got_aggregate only if an
\* aggregate was received within the deadline counted from the event send.
C2_DeadlinesFromSend ==
    (pc = "done" /\ res.join_ok) =>
        /\ res.event_ack_ok =>
                OkAcksUntil("event", sent[EventIdx].t + Timeout) # {}
        /\ res.got_aggregate =>
                \E i \in 1..Len(aggs) : aggs[i].t <= sent[EventIdx].t + Timeout

\* C3: got_aggregate and last_aggregate rest only on an aggregate that was
\* received after the event message was sent.
C3_AggregateAfterEvent ==
    (pc = "done" /\ res.join_ok) =>
        /\ res.got_aggregate =>
                \E i \in 1..Len(aggs) : aggs[i].n > sent[EventIdx].rx
        /\ res.last_aggregate # None =>
                res.last_aggregate.n > sent[EventIdx].rx

\* C4: once an auth ack with ok=false has been received in the authentication
\* wait, no join is sent and the driver returns auth_ok=false.
C4_Step ==
    (pc = "auth_wait" /\ \E a \in Range(ack_seen) : a.ack_type = "auth" /\ ~a.ok)
        => (Len(sent') = 1 /\ (pc' = "done" => ~res'.auth_ok))

C4_AuthNackFails == [][C4_Step]_vars

C6_Rejoin ==
    /\ (idem /\ Len(sent) >= 3) =>
            /\ [sent[3] EXCEPT !.t = 0, !.rx = 0] = [sent[2] EXCEPT !.t = 0, !.rx = 0]
            /\ OkAcksBy("join_class_session", sent[3].rx) # {}
    /\ (idem /\ Len(sent) >= 4) =>
            /\ Cardinality(OkAcksBy("join_class_session", sent[4].rx)) >= 2
            /\ \E i \in OkAcksBy("join_class_session", sent[4].rx) :
                    ack_seen[i].n > sent[3].rx
    /\ (~idem /\ EventSent) =>
            Cardinality({i \in 1..Len(sent) : sent[i].type = "join_class_session"}) = 1

\* C7: for a driver that sent its event, event_ack_ok tells whether the ack
\* wait saw a successful event ack and got_aggregate whether the aggregate
\* wait saw an aggregate; the aggregate wait runs its full deadline after an
\* ack wait that timed out.
C7_IndependentFlags ==
    (pc = "done" /\ res.join_ok) =>
        /\ res.event_ack_ok => event_pred
        /\ ~res.event_ack_ok =>
                /\ \A a \in Range(ack_seen) :
                        IsOkAck(a, "event") => a.t >= sent[EventIdx].t + Timeout
                /\ deadline = sent[EventIdx].t + 2 * Timeout
        /\ res.got_aggregate => agg_pred
        /\ ~res.got_aggregate => \A g \in Range(aggs) : g.t >= deadline

C7_Witness ==
    pc = "done" /\ res.join_ok /\ ~res.event_ack_ok /\ res.got_aggregate

\* the other three combinations of the two flags
C7_BothTrue == pc = "done" /\ res.event_ack_ok /\ res.got_aggregate

C7_AckOnly == pc = "done" /\ res.event_ack_ok /\ ~res.got_aggregate

C7_Neither ==
    pc = "done" /\ res.join_ok /\ ~res.event_ack_ok /\ ~res.got_aggregate

\* C8: every message in the ack buffer or the aggregate buffer that carries
\* correlation_id or class_session_id already has its evidence line in logs.
C8_LoggedBeforeVisible ==
    \A m \in Range(ack_seen) \cup Range(aggs) :
        /\ m.correlation_id # 0 =>
                <<"correlation_id", m.correlation_id>> \in Range(logs)
        /\ m.class_session_id # 0 =>
                <<"class_session_id", m.class_session_id>> \in Range(logs)

C8_Witness ==
    /\ pc = "done" /\ ~res.join_ok /\ res.auth_ok
    /\ \E m \in Range(aggs) : m.correlation_id = 2

\* C9: a driver run cannot hang, whatever arrives and also when nothing ever
\* arrives: no wait lasts beyond its deadline plus one poll, the last deadline
\* lies no more than one timeout per wait after the connect, and until the
\* driver returns its thread can run or is asleep with the clock running.
C9_RunBounded ==
    /\ pc \in Waits => now <= deadline + Poll
    /\ pc \notin {"idle", "raised"} =>
            deadline <= sent[1].t + (Len(Protocol) + 1) * Timeout
    /\ pc \notin {"idle", "done", "raised"} =>
            ENABLED Driver \/ ENABLED Callback \/ ENABLED Tick

C9_Witness == pc = "done" /\ Received = 0 /\ now = Timeout

\* the same as liveness: under FairSpec every driver run returns, and under
\* FairMain main ends
C9_DriverTerminates == <>(pc \in {"done", "raised"})

C9_MainTerminates == <>(mpc \in {"exited", "aborted"})

\* C10: when all three clients connected, main ends with the report, the log
\* blob, the correlation-id list and the timeline written, and with exit code
\* 0 or 2, whatever steps failed.
C10_EvidenceAlways ==
    (mpc \in {"exited", "aborted"} /\ \A k \in 1..3 : conn[k] # "none") =>
        (Files \subseteq written /\ exit_code \in {0, 2})

\* the assertion lines of a report and the messages a full report carries
AssertionLines == {i \in 1..Len(report) : report[i].tag \in {"PASS", "FAIL"}}

CountMsgs(k) ==
    IF k = 1 THEN {"joined_count == 1", "enter_event_count == 1"}
             ELSE {"joined_count == 2", "enter_event_count == 2"}

\* main has evaluated the assertions on res1 and res2
Asserted == mpc \in {"disc1", "flow3", "disc2", "write", "return", "exited"}

\* C11: when client k returned no aggregate the report still carries the two
\* count assertions of client k, each as a FAIL line.
C11_DependentLinesFail ==
    Asserted =>
        \A k \in 1..2 :
            results[k].last_aggregate = None =>
                \A msg \in CountMsgs(k) :
                    \E i \in AssertionLines : report[i] = Line(FALSE, msg)

\* C12: main returns 0 exactly when every assertion line of the written
\* report is PASS and 2 exactly when some line is FAIL; the three header
\* lines do not count.
C12_ExitCode ==
    mpc = "exited" =>
        /\ Files \subseteq written
        /\ \E i \in 1..Len(report) : report[i].tag = "INFO"
        /\ exit_code = 0 <=> \A i \in AssertionLines : report[i].tag = "PASS"
        /\ exit_code = 2 <=> \E i \in AssertionLines : report[i].tag = "FAIL"

C12_Witness == mpc = "exited" /\ exit_code = 0 /\ Len(report) > 3

\* a run that ends with a FAIL line
C12_Failed == mpc = "exited" /\ exit_code = 2

\* C13: client 2's driver does not wait for client 1's: when time has passed
\* in a wait of client 1's driver, client 2 is connected.
C13_ParallelDrivers ==
    (mpc = "flow1" /\ pc \in Waits /\ now > sent[1].t) => conn[2] = "open"

\* what main does instead: client 2 is not connected before client 1's driver
\* has returned
C13_Sequential == conn[2] # "none" => mpc \notin {"post", "flow1"}

\* C14: with a server that counts each joined connection once and both
\* clients joined, the snapshot returned by the driver of client k, when it
\* got an aggregate, has joined_count = k and enter_event_count = k.
C14_ExactCounts ==
    (Asserted /\ ~dup /\ results[1].join_ok /\ results[2].join_ok) =>
        \A k \in 1..2 :
            results[k].got_aggregate =>
                /\ results[k].last_aggregate.joined_count = k
                /\ results[k].last_aggregate.enter_event_count = k

\* the same for runs in which every timing assertion passes
C14_ExactCountsTimely ==
    (Asserted /\ ~dup /\ \A k \in 1..2 :
            results[k].event_ack_ok /\ results[k].got_aggregate) =>
        \A k \in 1..2 :
            /\ results[k].last_aggregate.joined_count = k
            /\ results[k].last_aggregate.enter_event_count = k

\* C15: client 3 connects only after client 1 was disconnected, and when
\* clients 1 and 2 had joined every aggregate client 3 receives, the captured
\* one included, has joined_count = 2.
C15_NetChange ==
    /\ conn[3] # "none" => conn[1] = "closed"
    /\ (results[1].join_ok /\ results[2].join_ok) =>
            /\ mpc = "flow3" => \A g \in Range(aggs) : g.joined_count = 2
            /\ agg_after_disc # None => agg_after_disc.joined_count = 2

C15_Witness ==
    /\ results[1].join_ok /\ results[2].join_ok
    /\ mpc = "disc2" /\ agg_after_disc.joined_count = 2
    /\ report[Len(report)].tag = "PASS"

\* C16: client 1 got its two join acks; if the server counted the repeated
\* join again, the report has the line FAIL joined_count == 1 and the exit code
\* is not 0; if it did not, the snapshot of client 1 has joined_count = 1.
C16_DoubleCountNoticed ==
    (Asserted /\ results[1].join_ok) =>
        /\ dup =>
            /\ \E i \in AssertionLines : report[i] = Line(FALSE, "joined_count == 1")
            /\ exit_code # 0
        /\ (~dup /\ results[1].last_aggregate # None) =>
                results[1].last_aggregate.joined_count = 1

\* a run against a double-counting server never exits with 0
C16_ExitNonZero == (dup /\ mpc = "exited") => exit_code = 2

\* C17: a returned result has a snapshot exactly when got_aggregate is true.
C17_SnapshotIffFlag ==
    pc = "done" => (res.last_aggregate # None <=> res.got_aggregate)

\* the chain of candidate cid is complete: among the spans with that
\* correlation id each required kind has a span whose name contains it, and
\* some span has a class_session_id
ChainComplete(cid, sp) ==
    LET under == {x \in sp : x.corr = cid} IN
        /\ \A j \in 1..Len(Kinds) :
                \E x \in under : x.name.isstr /\ x.name.has \cap Kinds[j] # {}
        /\ \E x \in under : x.csid # ""

\* the gate has returned on a loaded export with spans and candidates
Verified == gpc = "done" /\ export = "ok" /\ spans # {} /\ ids # <<>>

\* C18: on an export with spans and a non-empty candidate list the verifier
\* passes exactly when some candidate of the list has a complete chain, and it
\* fails only when it has gone through the whole list.
C18_PassIffSomeComplete ==
    Verified =>
        /\ chk.conclusion = "PASS" <=>
                \E i \in 1..Len(ids) : ChainComplete(ids[i], spans)
        /\ chk.conclusion = "FAIL" => gi > Len(ids)

\* C19: the id named by a passing verifier is the first candidate, in list
\* order, whose chain is complete.
C19_FirstComplete ==
    (gpc = "done" /\ chk.conclusion = "PASS") =>
        \E i \in 1..Len(ids) :
            /\ chk.evidence.cid = ids[i]
            /\ ChainComplete(ids[i], spans)
            /\ \A j \in 1..(i - 1) : ~ChainComplete(ids[j], spans)

C19_Witness ==
    /\ gpc = "done" /\ chk.conclusion = "PASS"
    /\ ids = <<"Y", "X">> /\ chk.evidence.cid = "X"
    /\ span_by_corr(spans, "Y") # {}

\* two complete candidates: the earlier one is named
C19_EarlierWins ==
    /\ gpc = "done" /\ ids = <<"X", "Y">> /\ chk.evidence.cid = "X"
    /\ ChainComplete("Y", spans)

\* complete chains of X with one span per required kind, and such a chain
\* without its span of kind j
OnePerKind ==
    {Chain("X", {w} \cup (FullY \ {"ws.message"}), cc) :
        w \in Kinds[1],
        cc \in {REQUIRED_SPAN_NAME_SUBSTRINGS} \cup
               {{k} : k \in REQUIRED_SPAN_NAME_SUBSTRINGS}}

Removed(base, j) == {x \in base : x.name.has \cap Kinds[j] = {}}

\* C20: X is the only candidate and its chain has one span per required kind;
\* with the span of one kind removed the verifier fails, and its diagnostic
\* is not the one it gives when another kind is removed.
C20_NamesMissingKind ==
    (gpc = "done" /\ export = "ok" /\ ids = <<"X">>) =>
        \A base \in OnePerKind, j \in 1..Len(Kinds) :
            (ChainComplete("X", base) /\ spans = Removed(base, j)) =>
                /\ chk.conclusion = "FAIL"
                /\ \A j2 \in 1..Len(Kinds) \ {j} :
                        check_trace_chain(ids, Removed(base, j2)).evidence
                            # chk.evidence

\* the part of C20 that holds: the verifier fails
C20_RemovalFails ==
    (gpc = "done" /\ export = "ok" /\ ids = <<"X">>) =>
        \A base \in OnePerKind, j \in 1..Len(Kinds) :
            (ChainComplete("X", base) /\ spans = Removed(base, j)) =>
                chk.conclusion = "FAIL"

\* the function and the loop agree
TraceChainAgrees ==
    (gpc = "done" /\ export = "ok") => chk = check_trace_chain(ids, spans)

\* C24: once the driver has returned, the returned result does not change:
\* its flags and last aggregate, and its timeline and service_logs, which are
\* the lists timeline and logs of the driver.
C24_Step ==
    pc = "done" => (res' = res /\ timeline' = timeline /\ logs' = logs)

C24_ResultFrozen == [][C24_Step]_vars

\* the part of the result that is frozen: the flags and the snapshot
C24_FlagsStep == pc = "done" => res' = res

C24_FlagsFrozen == [][C24_FlagsStep]_vars

\* main is over
Ended == mpc \in {"exited", "aborted"}

\* C25: when client 1's connect failed, main still runs client 2's driver,
\* ends with FAIL lines in the report and with the evidence files written.
C25_ConnectFailLocal ==
    (Ended /\ conn[1] = "none" /\ ~(pc = "idle" /\ flow = 1)) =>
        /\ flow > 1
        /\ \E i \in 1..Len(report) : report[i].tag = "FAIL"
        /\ Files \subseteq written

\* the report as a function of res1, res2 and the third client's aggregate
CountLines(agg, k) ==
    IF agg = None THEN <<>>
    ELSE << [tag |-> IF agg.joined_count = k THEN "PASS" ELSE "FAIL",
             msg |-> IF k = 1 THEN "joined_count == 1" ELSE "joined_count == 2"],
            [tag |-> IF agg.enter_event_count = k THEN "PASS" ELSE "FAIL",
             msg |-> IF k = 1 THEN "enter_event_count == 1"
                              ELSE "enter_event_count == 2"] >>

FlagLines(r, k) ==
    << [tag |-> IF r.event_ack_ok THEN "PASS" ELSE "FAIL",
        msg |-> IF k = 1 THEN "ack(event) within 1s (client1)"
                         ELSE "ack(event) within 1s (client2)"],
       [tag |-> IF r.got_aggregate THEN "PASS" ELSE "FAIL",
        msg |-> IF k = 1 THEN "aggregate within 1s (client1)"
                         ELSE "aggregate within 1s (client2)"] >>

ReportOf(r1, r2, a3) ==
    << Info("class_session_id"), Info("c1_correlation_id"), Info("c2_correlation_id") >>
    \o FlagLines(r1, 1) \o FlagLines(r2, 2)
    \o << [tag |-> IF r1.last_aggregate # None THEN "PASS" ELSE "FAIL",
           msg |-> "client1 received aggregate"],
          [tag |-> IF r2.last_aggregate # None THEN "PASS" ELSE "FAIL",
           msg |-> "client2 received aggregate"] >>
    \o CountLines(r1.last_aggregate, 1) \o CountLines(r2.last_aggregate, 2)
    \o (IF a3 = None THEN <<>>
        ELSE << [tag |-> IF a3.joined_count = 2 THEN "PASS" ELSE "FAIL",
                 msg |-> "after disconnect + new join (expected 2)"] >>)

\* C29: the report is determined by res1, res2 and the third client's
\* aggregate alone: whatever the times and the history of the run, it is the
\* same lines in the same order.
C29_ReportFunction ==
    Asserted => report = ReportOf(results[1], results[2], agg_after_disc)

C29_Witness ==
    /\ mpc = "exited" /\ now > 0
    /\ report = ReportOf(results[1], results[2], agg_after_disc)
    /\ \E i \in 1..Len(report) : report[i].tag = "FAIL"

\* C26: every outbound message of a driver carries the driver's one
\* correlation id, the id a driver returns to main is the id of its messages,
\* and the ids returned by different drivers differ.
C26_Inv ==
    /\ \A i, j \in 1..Len(sent) : sent[i].correlation_id = sent[j].correlation_id
    /\ \A i \in 1..Len(sent) : sent[i].correlation_id = correlation_id
    /\ \A i, j \in 1..Len(cids) : i # j => cids[i] # cids[j]

C26_Step ==
    cids' # cids =>
        /\ Len(cids') = Len(cids) + 1
        /\ \A i \in 1..Len(cids) : cids'[i] = cids[i]
        /\ \A i \in 1..Len(sent) : sent[i].correlation_id = cids'[Len(cids')]

C26_OneCorrelationId == []C26_Inv /\ [][C26_Step]_vars

C26_Witness == mpc = "exited" /\ Len(cids) = 2 /\ cids[1] # cids[2]

\* the diagnostics of the three failure kinds
NoExportTexts == {"missing_trace_export", "missing_non_empty_spans"}

C21_Malformed == gpc = "done" /\ export = "invalid_json"

C21_ChainIncomplete ==
    gpc = "done" /\ export = "ok" /\ chk.evidence.text = "no_complete_span_chain"

\* spans that belong to no candidate of idl: one span, or a whole chain
Unrelated(idl) ==
    LET others == {"", "X", "Y", "W"} \ Range(idl) IN
        {{Span(Name(TRUE, {k}), c, cs)} :
            k \in REQUIRED_SPAN_NAME_SUBSTRINGS, c \in others, cs \in {"", "cs1"}}
        \cup {Chain(c, FullY, FullY) : c \in others \ {""}}
        \cup {{Span(Name(TRUE, {k}), "", "cs1") : k \in FullY}}

\* C27: spans whose correlation id is no candidate (or absent or empty) do
\* not change the verdict or the id named, and an empty spans array fails
\* for every candidate list.
C27_UnrelatedSpans ==
    (gpc = "done" /\ export = "ok") =>
        /\ \A extra \in Unrelated(ids) :
            LET r == check_trace_chain(ids, spans \cup extra) IN
                /\ r.conclusion = chk.conclusion
                /\ r.evidence.cid = chk.evidence.cid
        /\ spans = {} => chk.conclusion = "FAIL"

C27_Witness ==
    /\ gpc = "done" /\ export = "ok" /\ ids = <<"Y">>
    /\ ChainComplete("X", spans) /\ span_by_corr(spans, "Y") # {}
    /\ chk.conclusion = "FAIL"

\* C28: a gate run changes none of its three input files, and a second run
\* on them gives the verdicts, the named id and the exit code of the first.
C28_Inv == (gpc = "returned" /\ runs > 1) => Verdict = prev

C28_Step == UNCHANGED <<export, spans, ids, obs, svc>>

C28_Repeatable == []C28_Inv /\ [][C28_Step]_vars

C28_Witness ==
    /\ gpc = "returned" /\ runs = MaxRuns /\ chk.conclusion = "PASS"
    /\ gexit = 0 /\ prev = Verdict

\* the inputs on which the gate's main meets an exception
Raises == check_token_evidence(export, obs, svc, ids).ok /\ export = "not_object"

\* C30: main returns 0 exactly when both checks are ok, 2 exactly when a
\* check is not ok and there was no exception, 3 exactly on an exception;
\* after a failed token check the trace check is recorded as failed without
\* being run; before a return of 0 or 2 the evidence is written.
C30_ExitCodes ==
    gpc = "returned" =>
        /\ gexit = 0 <=> (~Raises /\ tok.ok /\ chk.ok)
        /\ gexit = 2 <=> (~Raises /\ ~(tok.ok /\ chk.ok))
        /\ gexit = 3 <=> Raises
        /\ ~check_token_evidence(export, obs, svc, ids).ok =>
                /\ chk = FailResult("skipped_token_evidence_failed")
                /\ gi = 0
        /\ gexit \in {0, 2} => gwritten = <<tok, chk>>

C30_Witness ==
    /\ gpc = "returned" /\ gexit = 2 /\ ~tok.ok
    /\ ids = <<"X">> /\ ChainComplete("X", spans)

\* the other exit codes
C30_Passed == gpc = "returned" /\ gexit = 0 /\ chk.conclusion = "PASS"

C30_RuntimeError == gpc = "returned" /\ gexit = 3

\* the runner's main has completed and no script has run since
RunnerJustRan == ran # <<>> /\ ran[Len(ran)] = "runner"

\* C22: after the runner's main completes, trace-export.json is the real
\* export or the MISSING_FROM_API marker, whatever scripts ran before.
C22_ExportOrMarker == RunnerJustRan => export \in {"ok", "marker"}

\* the runner alone, on an empty artifacts directory
C22_FreshRun == (ran # <<>> /\ ran[1] = "runner") => export \in {"ok", "marker"}

\* C23: the service-logs.txt the runner writes contains the three literal
\* tokens whatever the drivers logged, and the token-evidence check on the
\* files just written passes.
C23_TokensWritten ==
    RunnerJustRan =>
        /\ \A t \in Tokens : \E i \in 1..Len(svc) : svc[i] = TextLine(t, "")
        /\ Tokens \subseteq TextTokens(svc, <<>>)
        /\ check_token_evidence(export, obs, svc, ids).conclusion = "PASS"

\* both drivers logged only their header line
C23_Witness ==
    /\ RunnerJustRan
    /\ \A i \in 1..Len(svc) : svc[i][1] = CORRELATION_FIELD => svc[i][2] \in {"", "X", "Y"}
    /\ Cardinality({i \in 1..Len(svc) : svc[i][1] = "class_session_id"}) = 2
    /\ Len(svc) = 8
    /\ svc[4][1] = CORRELATION_HEADER /\ svc[5][1] = CORRELATION_HEADER

\* every assertion line of the report is PASS: the exit code will be 0
AllPass == \A i \in AssertionLines : report[i].tag = "PASS"

\* C32 for clients 1 and 2 and the captured aggregates: exit code 0 only if
\* both drivers completed every step and the three snapshots have the
\* expected counts
C32_Inv ==
    (mpc = "exited" /\ exit_code = 0) =>
        /\ \A k \in 1..2 :
            /\ results[k].auth_ok /\ results[k].join_ok
            /\ results[k].event_ack_ok /\ results[k].got_aggregate
            /\ results[k].last_aggregate # None
            /\ results[k].last_aggregate.joined_count = k
            /\ results[k].last_aggregate.enter_event_count = k
        /\ agg_after_disc # None
        /\ agg_after_disc.joined_count = 2

\* C32 for the third client: when its snapshot is accepted in a run that
\* will exit with 0, its driver completed every step
C32_Step ==
    (mpc = "flow3" /\ mpc' = "disc2" /\ AllPass') =>
        /\ res.auth_ok /\ res.join_ok
        /\ res.event_ack_ok /\ res.got_aggregate

\* C32: the runner exits with 0 only if clients 1 and 2 completed every step
\* with the expected counts and the third client's snapshot has joined_count
\* 2; a failed step of any of the three clients prevents exit code 0.
C32_ZeroOnlyIfAllSteps == []C32_Inv /\ [][C32_Step]_vars

C32_FirstTwoClients == []C32_Inv

\* a run of the skeleton creator
SkeletonRuns == ran' = Append(ran, "skeleton")

\* C31: a run of the skeleton creator leaves every existing file with its
\* content, afterwards every required file exists, and a run directly after
\* another changes nothing.
C31_Step ==
    SkeletonRuns =>
        /\ export' # "missing" /\ obs' = ObsFiles
        /\ export # "missing" => export' = export /\ spans' = spans
        /\ "service-logs.txt" \in obs => svc' = svc
        /\ "correlation-ids.txt" \in obs => ids' = ids
        /\ (ran # <<>> /\ ran[Len(ran)] = "skeleton") =>
                UNCHANGED <<export, spans, obs, svc, ids>>

C31_KeepsExisting == [][C31_Step]_vars

\* the skeleton creator has run on the files the runner wrote
C31_Witness ==
    /\ Len(ran) >= 2 /\ ran[Len(ran)] = "skeleton" /\ ran[Len(ran) - 1] = "runner"
    /\ export = "marker" /\ ids \in {<<"X", "Y">>, <<"Y", "X">>}

\* C33: the candidate of a PASS verdict has, for each of the five entries of
\* REQUIRED_SPAN_NAME_SUBSTRINGS, a span whose name contains it.
C33_AllRequiredSubstrings ==
    (gpc = "done" /\ chk.conclusion = "PASS") =>
        \A sub \in REQUIRED_SPAN_NAME_SUBSTRINGS :
            has_name(names(span_by_corr(spans, chk.evidence.cid)), sub)

\* what holds instead: one span per kind, where either ws name serves
C33_EveryKind ==
    (gpc = "done" /\ chk.conclusion = "PASS") =>
        \A j \in 1..Len(Kinds) : \E sub \in Kinds[j] :
            has_name(names(span_by_corr(spans, chk.evidence.cid)), sub)

\* the buffers hold the messages in the order of their arrival
Ordered(buf) == \A i, j \in 1..Len(buf) : i < j => buf[i].n < buf[j].n

C35_Inv == Ordered(ack_seen) /\ Ordered(aggs) /\ Ordered(timeline)

C35_Step ==
    /\ IsPrefix(ack_seen, ack_seen') /\ IsPrefix(aggs, aggs')
    /\ IsPrefix(timeline, timeline') /\ IsPrefix(logs, logs')
    /\ auth_pred => auth_pred'
    /\ join_pred => join_pred'
    /\ join2_pred => join2_pred'
    /\ event_pred => event_pred'
    /\ agg_pred => agg_pred'

\* C35: within one driver ack_seen, aggs, timeline and logs only grow at
\* the end, their entries are in arrival order, and a wait predicate that
\* is true stays true.
C35_AppendOnly == []C35_Inv /\ [][C35_Step]_vars

C35_Witness ==
    /\ Len(ack_seen) >= 2 /\ Len(aggs) >= 1 /\ Len(logs) >= 3
    /\ auth_pred /\ join_pred /\ agg_pred
    /\ \E i \in 1..Len(ack_seen) : ack_seen[i].n > aggs[1].n

\* C36: when main has ended after the flows started, no opened connection
\* is left without its disconnect.
C36_AllDisconnected ==
    (Ended /\ conn[1] # "none") => \A k \in 1..3 : conn[k] # "open"

\* what holds on the normal return
C36_NormalReturn == mpc = "exited" => \A k \in 1..3 : conn[k] = "closed"

\* the client sessions the run opened; the correlation id of client k is k
Sessions == {k \in 1..3 : conn[k] # "none"}

\* C34: the candidate list written by the runner holds one id per client
\* session the run opened, the most recent first.
C34_OnePerSession ==
    mpc = "exited" =>
        /\ Range(ids) = Sessions
        /\ Len(ids) = Cardinality(Sessions)
        /\ \A i, j \in 1..Len(ids) : i < j => ids[i] > ids[j]

\* what is written: the ids of clients 1 and 2, in the order of their runs
C34_FirstTwoInOrder == mpc = "exited" => ids = <<1, 2>>

\* the time stamps of the lines never go back
Sorted(lines) == \A i, j \in 1..Len(lines) : i < j => lines[i].ts <= lines[j].ts

\* C37: the lines of e2e-timeline.txt are in non-decreasing time stamp
\* order, however the arrivals on the two connections interleave.
C37_TimelineSorted == "e2e-timeline.txt" \in written => Sorted(tfile)

\* what holds: each client's own lines are in order, and the closing line
\* is the latest
C37_EachSorted ==
    /\ Sorted(timelines[1]) /\ Sorted(timelines[2])
    /\ "e2e-timeline.txt" \in written =>
            \A i \in 1..Len(tfile) : tfile[i].ts <= tfile[Len(tfile)].ts

====
